---- MODULE Spec2Model ----
(***************************************************************************)
(* The sp string formatter (include/sp.hpp): the Output sink, the spec     *)
(* parser parse_format, the integer and string renderers, and the template *)
(* scanner format(Output&, fmt, args...).                                  *)
(*                                                                         *)
(* Characters are one-character strings, strings are sequences of them.    *)
(* A pointer into the template is the 1-based position of the byte it      *)
(* points at; term is Len(fmt) + 1 and the null pointer is 0.              *)
(***************************************************************************)
EXTENDS Integers, Sequences, FiniteSets, TLC

VARIABLES
    fmt,          \* the template handed to format()
    args,         \* the argument list handed to format()
    given,        \* the flags the caller wrote the template's spec from, if it did
    output,       \* the Output object (and the FILE or array behind it)
    pc,           \* "idle" | "scan" | "spin" | "done": where the format() call is
    state,        \* format(): State state
    next,         \* format(): next
    start,        \* format(): start
    formatStart,  \* format(): formatStart (0 is nullptr)
    prev,         \* format(): prev
    index,        \* format(): index
    before,       \* format(): before
    ret,          \* the value format() returned
    spin,         \* the padding loop a renderer is in: its counter and fill
    lit,          \* history: how often each template byte was written as literal text
    resolved,     \* history: the argument index each placeholder resolved to
    rendered,     \* history: template bytes of the placeholders that were rendered
    escapes,      \* history: first byte of every doubled brace the scanner took
    requested,    \* history: the write() calls made, and the sum of their lengths
    nwrites       \* number of write() calls the caller made itself

vars == << fmt, args, given, output, pc, state, next, start, formatStart, prev, index,
           before, ret, spin, lit, resolved, rendered, escapes, requested, nwrites >>

-----------------------------------------------------------------------------
(* Bounds *)

MaxSegs == 3     \* a template is at most this many segments long
MaxSpin == 2     \* iterations of a runaway padding loop that are followed
MaxWrites == 2   \* write() calls the caller makes itself
MaxCap == 3      \* largest buffer capacity
MaxRoom == 2     \* largest number of bytes a failing stream still accepts
MaxWidth == 8    \* largest width a generated spec asks for
MaxValue == 17   \* integers 0..MaxValue are rendered in every base

-----------------------------------------------------------------------------
(* Small helpers *)

Min(a, b) == IF a < b THEN a ELSE b
Max(a, b) == IF a > b THEN a ELSE b

\* (x * 10) + d in int32_t arithmetic, two's complement, in 16-bit halves
MulAdd32(x, d) ==
    LET hi == x \div 65536
        lo == x % 65536
        t == (lo * 10) + d
        h == (((hi * 10) + (t \div 65536) + 32768) % 65536) - 32768
    IN  (h * 65536) + (t % 65536)

NUL == "NUL"     \* the character '\0'

IsDigit(ch) == ch \in {"0", "1", "2", "3", "4", "5", "6", "7", "8", "9"}

DigitVal(ch) ==
    CASE ch = "0" -> 0 [] ch = "1" -> 1 [] ch = "2" -> 2 [] ch = "3" -> 3
      [] ch = "4" -> 4 [] ch = "5" -> 5 [] ch = "6" -> 6 [] ch = "7" -> 7
      [] ch = "8" -> 8 [] ch = "9" -> 9

RECURSIVE TotalLen(_)
TotalLen(ws) == IF ws = << >> THEN 0 ELSE Len(Head(ws)) + TotalLen(Tail(ws))

-----------------------------------------------------------------------------
(* Output *)

\* Output::Output(char buffer[], size_t size): the array has one byte more
\* than the size the Output is told, so that an overflow would show.
BufferOutput(size) ==
    [ m_stream |-> FALSE, m_size |-> size, m_length |-> 0, m_off |-> 0,
      mem |-> [i \in 1..(size + 1) |-> "?"], file |-> << >>, room |-> 0,
      retry |-> 0 ]

\* Output::Output(FILE* stream). room is the number of bytes the stream
\* accepts before an fwrite comes up short (-1: none does), retry the room
\* it has after that (a stream may fail once and take bytes again).
StreamOutput(room, retry) ==
    [ m_stream |-> TRUE, m_size |-> 0, m_length |-> 0, m_off |-> 0,
      mem |-> << >>, file |-> << >>, room |-> room, retry |-> retry ]

\* Output::result()
Result(o) == o.m_length

\* std::fwrite(data, 1, bytes, m_stream): the number of bytes written
Fwrite(o, bytes) == IF o.room < 0 THEN bytes ELSE Min(bytes, o.room)

\* BufferCopy that leaves no room for the terminator
BufferCopyFull(o, data) ==
    LET toCopy == Min(o.m_size, Len(data))
    IN  [o EXCEPT
            !.mem = [i \in DOMAIN @ |->
                        IF i > o.m_off /\ i <= o.m_off + toCopy
                        THEN data[i - o.m_off]
                        ELSE IF i = o.m_off + toCopy + 1 THEN NUL ELSE @[i]],
            !.m_off = @ + toCopy,
            !.m_size = @ - toCopy]

\* BufferCopy that copies all of the data, whatever room is left
BufferCopyUnchecked(o, data) ==
    LET toCopy == Len(data)
    IN  [o EXCEPT
            !.mem = [i \in DOMAIN @ |->
                        IF i > o.m_off /\ i <= o.m_off + toCopy
                        THEN data[i - o.m_off]
                        ELSE IF i = o.m_off + toCopy + 1 THEN NUL ELSE @[i]],
            !.m_off = @ + toCopy,
            !.m_size = @ - toCopy]

\* the buffer branch of Output::write: memcpy, terminator, cursor
BufferCopy(o, data) ==
    LET toCopy == Min(o.m_size - 1, Len(data))
    IN  [o EXCEPT
            !.mem = [i \in DOMAIN @ |->
                        IF i > o.m_off /\ i <= o.m_off + toCopy
                        THEN data[i - o.m_off]
                        ELSE IF i = o.m_off + toCopy + 1 THEN NUL ELSE @[i]],
            !.m_off = @ + toCopy,
            !.m_size = @ - toCopy]

\* OutputWrite without the test of m_length
OutputWriteNoSticky(o, data) ==
    LET bytes == Len(data)
    IN  IF o.m_stream
        THEN LET written == Fwrite(o, bytes)
                 o1 == [o EXCEPT !.file = @ \o SubSeq(data, 1, written),
                                 !.room = IF written # bytes THEN o.retry
                                          ELSE IF @ < 0 THEN @
                                          ELSE @ - written]
             IN  IF written = bytes
                 THEN [o1 EXCEPT !.m_length = @ + written]
                 ELSE [o1 EXCEPT !.m_length = -1]
        ELSE LET o1 == [o EXCEPT !.m_length = @ + bytes]
             IN  IF o.m_size # 0 THEN BufferCopy(o1, data) ELSE o1

\* OutputWrite that counts the bytes copied into the buffer
OutputWriteCopied(o, data) ==
    LET bytes == Len(data)
    IN  IF o.m_length >= 0
        THEN IF o.m_stream
             THEN LET written == Fwrite(o, bytes)
                      o1 == [o EXCEPT !.file = @ \o SubSeq(data, 1, written),
                                      !.room = IF written # bytes THEN o.retry
                                               ELSE IF @ < 0 THEN @
                                               ELSE @ - written]
                  IN  IF written = bytes
                      THEN [o1 EXCEPT !.m_length = @ + written]
                      ELSE [o1 EXCEPT !.m_length = -1]
             ELSE IF o.m_size # 0
                  THEN BufferCopy([o EXCEPT !.m_length = @ + Min(o.m_size - 1, bytes)],
                                  data)
                  ELSE o
        ELSE o

\* OutputWrite that counts the bytes of a short fwrite instead of failing
OutputWriteShortCounts(o, data) ==
    LET bytes == Len(data)
    IN  IF o.m_length >= 0
        THEN IF o.m_stream
             THEN LET written == Fwrite(o, bytes)
                      o1 == [o EXCEPT !.file = @ \o SubSeq(data, 1, written),
                                      !.room = IF written # bytes THEN o.retry
                                               ELSE IF @ < 0 THEN @
                                               ELSE @ - written]
                  IN  [o1 EXCEPT !.m_length = @ + written]
             ELSE LET o1 == [o EXCEPT !.m_length = @ + bytes]
                  IN  IF o.m_size # 0 THEN BufferCopy(o1, data) ELSE o1
        ELSE o

\* Output::write(size_t bytes, const void* data)
OutputWrite(o, data) ==
    LET bytes == Len(data)
    IN  IF o.m_length >= 0
        THEN IF o.m_stream
             THEN LET written == Fwrite(o, bytes)
                      o1 == [o EXCEPT !.file = @ \o SubSeq(data, 1, written),
                                      !.room = IF written # bytes THEN o.retry
                                               ELSE IF @ < 0 THEN @
                                               ELSE @ - written]
                  IN  IF written = bytes
                      THEN [o1 EXCEPT !.m_length = @ + written]
                      ELSE [o1 EXCEPT !.m_length = -1]
             ELSE LET o1 == [o EXCEPT !.m_length = @ + bytes]
                  IN  IF o.m_size # 0 THEN BufferCopy(o1, data) ELSE o1
        ELSE o

\* a run of write() calls, in order
RECURSIVE WriteAll(_, _)
WriteAll(o, ws) ==
    IF ws = << >> THEN o ELSE WriteAll(OutputWrite(o, Head(ws)), Tail(ws))

\* the bytes the sink holds: the stream's contents, or the content bytes
\* copied into the buffer
Emitted(o) == IF o.m_stream THEN o.file ELSE SubSeq(o.mem, 1, o.m_off)

-----------------------------------------------------------------------------
(* parse_format *)

\* FormatFlags{}
FormatFlags ==
    [ fill |-> NUL, align |-> NUL, sign |-> NUL, alternate |-> FALSE,
      width |-> -1, precision |-> -1, type |-> NUL ]

\* isAlign that does not know '='
isAlignNoEquals(ch) == ch \in {"<", ">", "^"}

\* parse_format: the isAlign lambda
isAlign(ch) == ch \in {"<", "=", ">"} \/ ch = "^"

\* TypeChars with the type 'n' as well
TypeCharsWithN ==
    {"b", "d", "e", "E", "f", "F", "g", "G", "n", "o", "s", "x", "X", "%"}

\* parse_format: the characters STATE_TYPE accepts
TypeChars == {"b", "d", "e", "E", "f", "F", "g", "G", "o", "s", "x", "X", "%"}

\* parse_format: one pass of the while loop and all that follow it.
\* nx is next before the pass, st the state, fl the flags so far.
RECURSIVE parse_loop(_, _, _, _)
parse_loop(f, st, nx, fl) ==
    IF nx > Len(f)
    THEN [ok |-> TRUE, flags |-> fl]
    ELSE LET ch == f[nx]
         IN CASE st = "STATE_ALIGN" ->
                   IF nx + 1 <= Len(f) /\ isAlign(f[nx + 1])
                   THEN parse_loop(f, "STATE_SIGN", nx + 2,
                                   [fl EXCEPT !.fill = ch, !.align = f[nx + 1]])
                   ELSE IF isAlign(ch)
                   THEN parse_loop(f, "STATE_SIGN", nx + 1, [fl EXCEPT !.align = ch])
                   ELSE parse_loop(f, "STATE_SIGN", nx, fl)
              [] st = "STATE_SIGN" ->
                   IF ch \in {"+", "-", " "}
                   THEN parse_loop(f, "STATE_ALTERNATE", nx + 1, [fl EXCEPT !.sign = ch])
                   ELSE parse_loop(f, "STATE_ALTERNATE", nx, fl)
              [] st = "STATE_ALTERNATE" ->
                   IF ch = "#"
                   THEN parse_loop(f, "STATE_WIDTH", nx + 1, [fl EXCEPT !.alternate = TRUE])
                   ELSE parse_loop(f, "STATE_WIDTH", nx, fl)
              [] st = "STATE_WIDTH" ->
                   IF IsDigit(ch)
                   THEN LET f1 == IF fl.width < 0
                                  THEN IF ch = "0"
                                       THEN [fl EXCEPT !.fill = "0", !.align = "=",
                                                       !.width = 0]
                                       ELSE [fl EXCEPT !.width = 0]
                                  ELSE fl
                        IN  parse_loop(f, st, nx + 1,
                                [f1 EXCEPT !.width = MulAdd32(@, DigitVal(ch))])
                   ELSE parse_loop(f, "STATE_PRECISION", nx, fl)
              [] st = "STATE_PRECISION" ->
                   IF fl.precision < 0 /\ ch = "."
                   THEN parse_loop(f, st, nx + 1, [fl EXCEPT !.precision = 0])
                   ELSE IF fl.precision >= 0 /\ IsDigit(ch)
                   THEN parse_loop(f, st, nx + 1,
                            [fl EXCEPT !.precision = MulAdd32(@, DigitVal(ch))])
                   ELSE parse_loop(f, "STATE_TYPE", nx, fl)
              [] st = "STATE_TYPE" ->
                   IF ch \in TypeChars
                   THEN parse_loop(f, "STATE_DONE", nx + 1, [fl EXCEPT !.type = ch])
                   ELSE parse_loop(f, "STATE_DONE", nx, fl)
              [] st = "STATE_DONE" ->
                   [ok |-> FALSE, flags |-> fl]

\* parse_format(fmt, &flags): ok is the value returned
parse_format(f) == parse_loop(f, "STATE_ALIGN", 1, FormatFlags)

-----------------------------------------------------------------------------
(* Renderers.  A renderer yields [ok, ws, spin, fill]: the value it returns, *)
(* the write() calls it makes in order, and, when it enters a padding loop   *)
(* whose counter is negative, that counter (the loop `while (n--)` does not  *)
(* end at zero then; ws holds the writes made before it).                    *)

NoRender == [ok |-> FALSE, ws |-> << >>, spin |-> 0, fill |-> " "]

\* CenterSpace that puts the odd fill character in front
CenterSpaceLeft(width, nchars) ==
    LET corr == (width - nchars - 1) % 2
    IN  [ lead |-> (((width + 1) \div 2) - (nchars \div 2)) - corr,
          tail |-> ((width \div 2) - ((nchars + 1) \div 2)) + corr ]

\* the case '^' of the alignment switch (the same in format_int,
\* format_float and format_string)
CenterSpace(width, nchars) ==
    LET corr == (width - nchars - 1) % 2     \* (width - nchars - 1) & 1
    IN  [ lead |-> ((width \div 2) - ((nchars + 1) \div 2)) + corr,
          tail |-> (((width + 1) \div 2) - (nchars \div 2)) - corr ]

\* n times output.write(fill)
Pad(n, fill) == [i \in 1..n |-> << fill >>]

\* the tail of a renderer: sign before the padding, leading padding, sign
\* after the padding, content, trailing padding
Layout(signBefore, lead, signAfter, content, tail, fill) ==
    IF lead < 0
    THEN [ok |-> TRUE, ws |-> signBefore, spin |-> lead, fill |-> fill]
    ELSE IF tail < 0
    THEN [ok |-> TRUE,
          ws |-> signBefore \o Pad(lead, fill) \o signAfter \o << content >>,
          spin |-> tail, fill |-> fill]
    ELSE [ok |-> TRUE,
          ws |-> signBefore \o Pad(lead, fill) \o signAfter \o << content >>
                   \o Pad(tail, fill),
          spin |-> 0, fill |-> fill]

\* Base that is 10 whatever the type flag
BaseTen(type) == 10

\* format_int: the base the type flag selects
Base(type) ==
    CASE type = "b" -> 2
      [] type = "o" -> 8
      [] type \in {"x", "X"} -> 16
      [] OTHER -> 10

\* format_int: digitchars
DigitChars(type) ==
    IF type = "X"
    THEN << "0","1","2","3","4","5","6","7","8","9","A","B","C","D","E","F" >>
    ELSE << "0","1","2","3","4","5","6","7","8","9","a","b","c","d","e","f" >>

\* A 64-bit value (uint64_t, or the bit pattern of a long long) is four
\* 16-bit limbs, the most significant first.
Zero64 == << 0, 0, 0, 0 >>

\* uint64_t(n) for 0 <= n < 2^31
U64(n) == << 0, 0, n \div 65536, n % 65536 >>

\* the largest uint64_t, and the bit pattern of the smallest long long
Max64 == << 65535, 65535, 65535, 65535 >>
Min64 == << 32768, 0, 0, 0 >>

\* value < 0 for the long long with the bit pattern x
IsNeg64(x) == x[1] >= 32768

\* uint64_t(-value): the two's complement of the pattern, modulo 2^64
Neg64(x) ==
    LET s4 == (65535 - x[4]) + 1
        s3 == (65535 - x[3]) + (s4 \div 65536)
        s2 == (65535 - x[2]) + (s3 \div 65536)
        s1 == (65535 - x[1]) + (s2 \div 65536)
    IN  << s1 % 65536, s2 % 65536, s3 % 65536, s4 % 65536 >>

\* (long long)value for a value of a narrower signed type: sign extension
SignExtend(v) == IF v >= 0 THEN U64(v) ELSE Neg64(U64(-v))

\* v / base and v % base of a uint64_t, limb by limb
DivMod64(v, base) ==
    LET a1 == v[1]
        a2 == ((a1 % base) * 65536) + v[2]
        a3 == ((a2 % base) * 65536) + v[3]
        a4 == ((a3 % base) * 65536) + v[4]
    IN  [q |-> << a1 \div base, a2 \div base, a3 \div base, a4 \div base >>,
         r |-> a4 % base]

\* format_int: char buffer[66]
DigitBufferSize == 66

\* format_int: the do-while loop that stores the digits back to front
RECURSIVE ToDigits(_, _, _)
ToDigits(v, base, dc) ==
    LET d == DivMod64(v, base)
    IN  IF d.q = Zero64
        THEN << dc[d.r + 1] >>
        ELSE ToDigits(d.q, base, dc) \o << dc[d.r + 1] >>

\* AlternatePrefix that is empty whatever the flags
AlternatePrefixNone(flags) == << >>

\* AlternatePrefix that spells the base with three letters
AlternatePrefixWide(flags) ==
    IF flags.alternate
    THEN CASE Base(flags.type) = 2 -> << "0", "b", "i", "n" >>
           [] Base(flags.type) = 8 -> << "0", "o", "c", "t" >>
           [] Base(flags.type) = 16 -> << "0", "h", "e", "x" >>
           [] OTHER -> << >>
    ELSE << >>

\* format_int: the prefix of the alternate form
AlternatePrefix(flags) ==
    IF flags.alternate
    THEN CASE Base(flags.type) = 2 -> << "0", "b" >>
           [] Base(flags.type) = 8 -> << "0", "o" >>
           [] Base(flags.type) = 16 -> << "0", flags.type >>
           [] OTHER -> << >>
    ELSE << >>

\* format_int that writes the sign before the padding whatever the alignment
format_intSignFirst(flags, isNegative, value) ==
    LET digits == AlternatePrefix(flags)
                    \o ToDigits(value, Base(flags.type), DigitChars(flags.type))
        ndigits == Len(digits)
        sign == IF isNegative THEN "-"
                ELSE IF flags.sign = "+" \/ flags.sign = " " THEN flags.sign
                ELSE NUL
        nchars == IF sign # NUL THEN ndigits + 1 ELSE ndigits
        width == Max(flags.width, nchars)
        sp == CASE flags.align = "^" -> CenterSpace(width, nchars)
                [] flags.align = "<" -> [lead |-> 0, tail |-> width - nchars]
                [] OTHER -> [lead |-> width - nchars, tail |-> 0]
        fill == IF flags.fill # NUL THEN flags.fill ELSE " "
    IN  Layout(IF sign # NUL THEN << << sign >> >> ELSE << >>,
               sp.lead, << >>, digits, sp.tail, fill)

\* format_int(output, flags, isNegative, value)
format_int(flags, isNegative, value) ==
    LET digits == AlternatePrefix(flags)
                    \o ToDigits(value, Base(flags.type), DigitChars(flags.type))
        ndigits == Len(digits)
        sign == IF isNegative THEN "-"
                ELSE IF flags.sign = "+" \/ flags.sign = " " THEN flags.sign
                ELSE NUL
        nchars == IF sign # NUL THEN ndigits + 1 ELSE ndigits
        width == Max(flags.width, nchars)
        sp == CASE flags.align = "^" -> CenterSpace(width, nchars)
                [] flags.align = "<" -> [lead |-> 0, tail |-> width - nchars]
                [] OTHER -> [lead |-> width - nchars, tail |-> 0]
        fill == IF flags.fill # NUL THEN flags.fill ELSE " "
    IN  Layout(IF sign # NUL /\ flags.align = "=" THEN << << sign >> >> ELSE << >>,
               sp.lead,
               IF sign # NUL /\ flags.align # "=" THEN << << sign >> >> ELSE << >>,
               digits, sp.tail, fill)

\* format_string that never truncates
format_stringWhole(format, str) ==
    LET p == parse_format(format)
        flags == p.flags
        nchars == Len(str)
        width == Max(flags.width, nchars)
        sp == CASE flags.align = "^" -> CenterSpace(width, nchars)
                [] flags.align = ">" -> [lead |-> width - nchars, tail |-> 0]
                [] OTHER -> [lead |-> 0, tail |-> width - nchars]
        fill == IF flags.fill # NUL THEN flags.fill ELSE " "
    IN  IF ~p.ok
        THEN NoRender
        ELSE Layout(<< >>, sp.lead, << >>, SubSeq(str, 1, nchars), sp.tail, fill)

\* format_string that pads in front when the spec has no alignment
format_stringRight(format, str) ==
    LET p == parse_format(format)
        flags == p.flags
        nchars == IF flags.precision >= 0
                  THEN Min(flags.precision, Len(str))
                  ELSE Len(str)
        width == Max(flags.width, nchars)
        sp == CASE flags.align = "^" -> CenterSpace(width, nchars)
                [] flags.align = "<" -> [lead |-> 0, tail |-> width - nchars]
                [] OTHER -> [lead |-> width - nchars, tail |-> 0]
        fill == IF flags.fill # NUL THEN flags.fill ELSE " "
    IN  IF ~p.ok
        THEN NoRender
        ELSE Layout(<< >>, sp.lead, << >>, SubSeq(str, 1, nchars), sp.tail, fill)

\* format_string(output, format, str)
format_string(format, str) ==
    LET p == parse_format(format)
        flags == p.flags
        nchars == IF flags.precision >= 0
                  THEN Min(flags.precision, Len(str))
                  ELSE Len(str)
        width == Max(flags.width, nchars)
        sp == CASE flags.align = "^" -> CenterSpace(width, nchars)
                [] flags.align = ">" -> [lead |-> width - nchars, tail |-> 0]
                [] OTHER -> [lead |-> 0, tail |-> width - nchars]
        fill == IF flags.fill # NUL THEN flags.fill ELSE " "
    IN  IF ~p.ok
        THEN NoRender
        ELSE Layout(<< >>, sp.lead, << >>, SubSeq(str, 1, nchars), sp.tail, fill)

\* n times the character '0'
Zeros(n) == [i \in 1..n |-> "0"]

\* format_float: snprintf(buffer, sizeof(buffer), "%+.<precision><type>", value)
\* without the sign it starts with, for the values 12.0 and -12.0 (and 100
\* times the value where percent is set)
snprintf(precision, type, percent) ==
    LET fraction == IF precision > 0 THEN << "." >> \o Zeros(precision) ELSE << >>
        exponent == IF type \in {"E", "G"} THEN << "E", "+", "0", "1" >>
                    ELSE << "e", "+", "0", "1" >>
    IN  CASE percent -> << "1", "2", "0", "0" >> \o fraction \o << "%" >>
          [] type \in {"f", "F"} -> << "1", "2" >> \o fraction
          [] type \in {"e", "E"} ->
                (IF precision > 0
                 THEN << "1", ".", "2" >> \o Zeros(precision - 1)
                 ELSE << "1" >>) \o exponent
          [] OTHER ->
                IF precision <= 1 THEN << "1" >> \o exponent ELSE << "1", "2" >>

\* format_float: char buffer[512]
ScratchSize == 512

\* format_float: the ndigits bytes at buffer + 1 that are handed to
\* output.write.  snprintf returns the length of the whole text (a sign and
\* text) but stores its first 511 characters at most, and a '\0' behind
\* them; a byte past the end of the buffer is whatever lies behind it on the
\* stack.
Scratch(text, behind) ==
    [k \in 1..Len(text) |->
        IF k < Min(Len(text) + 1, ScratchSize - 1) THEN text[k]
        ELSE IF k < ScratchSize THEN NUL
        ELSE behind]

\* format_float(output, format, value), with the byte behind its buffer
format_float(format, value, behind) ==
    LET p == parse_format(format)
        flags == p.flags
        percent == flags.type = "%"
        precision ==
            CASE flags.type \in {"f", "F", "e", "E", "%"} ->
                    IF flags.precision >= 0 THEN flags.precision ELSE 6
              [] flags.type \in {"g", "G"} ->
                    IF flags.precision # 0
                    THEN (IF flags.precision > 0 THEN flags.precision ELSE 6)
                    ELSE 1
              [] OTHER ->     \* std::numeric_limits<double>::digits10
                    IF flags.precision >= 0 THEN flags.precision ELSE 15
        type == CASE flags.type \in {"f", "F", "e", "E", "g", "G"} -> flags.type
                  [] percent -> "f"
                  [] OTHER -> "g"
        digits == Scratch(snprintf(precision, type, percent), behind)
        ndigits == Len(digits)
        sign == IF value < 0 THEN "-"
                ELSE IF flags.sign = "+" \/ flags.sign = " " THEN flags.sign
                ELSE NUL
        nchars == IF sign # NUL THEN ndigits + 1 ELSE ndigits
        width == Max(flags.width, nchars)
        sp == CASE flags.align = "^" -> CenterSpace(width, nchars)
                [] flags.align = "<" -> [lead |-> 0, tail |-> width - nchars]
                [] OTHER -> [lead |-> width - nchars, tail |-> 0]
        fill == IF flags.fill # NUL THEN flags.fill ELSE " "
    IN  IF ~p.ok
        THEN NoRender
        ELSE Layout(IF sign # NUL /\ flags.align = "=" THEN << << sign >> >> ELSE << >>,
                    sp.lead,
                    IF sign # NUL /\ flags.align # "=" THEN << << sign >> >> ELSE << >>,
                    digits, sp.tail, fill)

\* format_value for a long long whose magnitude is the bit pattern itself
\* for a negative value too
format_value_llNoNegate(format, value) ==
    LET p == parse_format(format)
    IN  IF p.ok THEN format_int(p.flags, IsNeg64(value), value) ELSE NoRender

\* format_value for a long long that renders before it looks at the result
\* of parse_format
format_value_llEager(format, value) ==
    LET abs == IF ~IsNeg64(value) \/ value = Min64 THEN value ELSE Neg64(value)
        p == parse_format(format)
    IN  [format_int(p.flags, IsNeg64(value), abs) EXCEPT !.ok = p.ok]

\* format_value(Output&, const StringView&, long long)
format_value_ll(format, value) ==
    LET abs == IF ~IsNeg64(value) \/ value = Min64 THEN value ELSE Neg64(value)
        p == parse_format(format)
    IN  IF p.ok THEN format_int(p.flags, IsNeg64(value), abs) ELSE NoRender

\* format_value(Output&, const StringView&, unsigned long long)
format_value_ull(format, value) ==
    LET p == parse_format(format)
    IN  IF p.ok THEN format_int(p.flags, FALSE, value) ELSE NoRender

\* format_value(Output&, const StringView&, int), and the overloads of the
\* other signed types narrower than long long
format_value_int(format, value) == format_value_ll(format, SignExtend(value))

\* format_value(Output&, const StringView&, bool)
format_value_bool(format, value) ==
    format_string(format, IF value # 0 THEN << "t", "r", "u", "e" >>
                          ELSE << "f", "a", "l", "s", "e" >>)

\* format_value(Output&, const StringView&, char): the code of the character
\* converted to long long (or to unsigned long long, the same for a code
\* that is not negative)
format_value_char(format, value) == format_value_ll(format, SignExtend(value))

\* the format_value overload that the argument's type selects
format_value(format, arg) ==
    CASE arg.kind = "int" -> format_value_int(format, arg.val)
      [] arg.kind = "ll" -> format_value_ll(format, arg.val)
      [] arg.kind = "ull" -> format_value_ull(format, arg.val)
      [] arg.kind = "str" -> format_string(format, arg.str)
      [] arg.kind = "bool" -> format_value_bool(format, arg.val)
      [] arg.kind = "char" -> format_value_char(format, arg.val)
      [] arg.kind = "float" -> format_float(format, arg.val, arg.str[1])
      [] OTHER -> NoRender     \* format_value(Output&, const StringView&, const DummyArg&)

\* format_index(output, format, index, args...)
format_index(format, idx, as) ==
    IF idx >= 0 /\ idx < Len(as) THEN format_value(format, as[idx + 1]) ELSE NoRender

-----------------------------------------------------------------------------
(* Inputs *)

\* arguments: an int, a long long or an unsigned long long (its 64 bits), a
\* string (const char[]), a bool (0 or 1), a char (its code), a double (12.0
\* or -12.0, with the byte that lies behind the buffer of format_float when
\* it is rendered), or a DummyArg
IntArg(v) == [kind |-> "int", val |-> v, str |-> << >>]
LLArg(bits) == [kind |-> "ll", val |-> bits, str |-> << >>]
ULLArg(bits) == [kind |-> "ull", val |-> bits, str |-> << >>]
BoolArg(b) == [kind |-> "bool", val |-> b, str |-> << >>]
CharArg(c) == [kind |-> "char", val |-> c, str |-> << >>]
FloatOnStack(v, behind) == [kind |-> "float", val |-> v, str |-> << behind >>]
FloatArg(v) == FloatOnStack(v, NUL)
StrArg(s) == [kind |-> "str", val |-> 0, str |-> s]
DummyArg == [kind |-> "dummy", val |-> 0, str |-> << >>]

Ooga == StrArg(<< "o", "o", "g", "a" >>)

ArgLists ==
    { << >>,
      << Ooga >>,
      << IntArg(3), Ooga >>,
      << IntArg(-12), DummyArg >>,
      << IntArg(0), IntArg(1), IntArg(2) >> }

\* the pieces templates are put together from: every character of the
\* placeholder syntax on its own, and the shortest placeholders
Segments ==
    { << "a" >>, << "{" >>, << "}" >>, << ":" >>, << "1" >>, << "^" >>,
      << "{", "}" >>, << "{", "1", "}" >>, << "{", ":" >> }

RECURSIVE SegTemplates(_)
SegTemplates(n) ==
    IF n = 0
    THEN { << >> }
    ELSE LET S == SegTemplates(n - 1)
         IN  S \cup { s \o g : s \in S, g \in Segments }

\* templates of the test suite and of the README
NestedTemplate == << "{", "1", ":", ".", "{", "0", "}", "}" >>
AutoTemplate ==
    << "{", "}", " ", "{", "}", " ", "{", "1", "}", " ", "{", "}", " ", "{", "1", "}" >>
ReadmeTemplates == { NestedTemplate, AutoTemplate }

Templates == SegTemplates(MaxSegs) \cup ReadmeTemplates

\* templates and arguments of the test suite's "Integer formats" and "Char
\* formats": alternate form with zero padding, a sign with each alignment,
\* the 'c' type, bool arguments and char arguments
AltZeroTemplate == << "{", ":", "#", "0", "8", "x", "}" >>
AltZeroSignTemplate == << "{", ":", "-", "#", "0", "8", "x", "}" >>
SignAwareTemplate == << "{", ":", "=", "+", "5", "}" >>
SignTemplates ==
    { SignAwareTemplate,
      << "{", ":", ">", "+", "5", "}" >>,
      << "{", ":", "<", "+", "5", "}" >>,
      << "{", ":", "^", "+", "5", "}" >>,
      << "{", ":", "+", "5", "}" >> }
CharTypeTemplate == << "{", ":", "c", "}" >>
DotTemplate == << "{", ":", ".", "}" >>
LeftAltZeroTemplate == << "{", ":", "<", "#", "0", "8", "x", "}" >>
CenterBoolTemplate == << "{", ":", "^", "6", "}" >>
PlainTemplate == << "{", "}" >>
DecTemplate == << "{", ":", "d", "}" >>
HexTemplate == << "{", ":", "x", "}" >>
WidthTemplate == << "{", ":", "3", "}" >>
RightTemplate == << "{", ":", ">", "3", "}" >>

\* specs whose digit run is past the largest int32_t: a width of 2^31, a
\* width of 2^32 + 5, a precision of 2^31
WidthOverflowTemplate ==
    << "{", ":", "2", "1", "4", "7", "4", "8", "3", "6", "4", "8", "}" >>
WidthWrapTemplate ==
    << "{", ":", "4", "2", "9", "4", "9", "6", "7", "3", "0", "1", "}" >>
PrecisionOverflowTemplate ==
    << "{", ":", ".", "2", "1", "4", "7", "4", "8", "3", "6", "4", "8", "}" >>

\* the calls format(fmt, arg) with those specs
OverflowCases ==
    { << WidthOverflowTemplate, << IntArg(1) >> >>,
      << WidthWrapTemplate, << IntArg(1) >> >>,
      << PrecisionOverflowTemplate, << StrArg(<< "f", "o", "o" >>) >> >> }

\* a placeholder without an index that is not rendered (a spec that does
\* not parse, or text that is no placeholder syntax), and one without an
\* index behind it
JunkThenAutoTemplate == << "{", ":", "_", "}", "{", "}" >>
NameThenAutoTemplate ==
    << "{", "f", "o", "o", ".", "b", "a", "r", "}", "{", "}" >>

\* the calls format(fmt, 0, 1, 2) with those templates
FallbackCases ==
    { << f, << IntArg(0), IntArg(1), IntArg(2) >> >> :
        f \in {JunkThenAutoTemplate, NameThenAutoTemplate} }

\* the calls format(fmt, arg) of those tests, as pairs << fmt, args >>
TestCases ==
    { << AltZeroTemplate, << IntArg(1) >> >>,
      << AltZeroSignTemplate, << IntArg(-1) >> >>,
      << CharTypeTemplate, << IntArg(65) >> >>,
      << DotTemplate, << IntArg(1) >> >>,
      << LeftAltZeroTemplate, << IntArg(1) >> >>,
      << CenterBoolTemplate, << BoolArg(1) >> >> }
        \cup { << f, << IntArg(v) >> >> : f \in SignTemplates, v \in {52, -52} }
        \cup { << f, << BoolArg(b) >> >> :
                    f \in {PlainTemplate, DecTemplate, HexTemplate}, b \in {0, 1} }
        \cup { << f, << CharArg(120) >> >> :
                    f \in {PlainTemplate, WidthTemplate, RightTemplate} }

\* The caller writes a spec from the flags it wants: fill and align, sign,
\* a width with or without a leading 0, a precision, a type, and possibly
\* a character that belongs to no stage (junk).  NUL and -1 stand for a
\* stage left out.
GivenSpec(fill, align, sign, zero, width, prec, type, junk) ==
    [ set |-> TRUE, fill |-> fill, align |-> align, sign |-> sign, alt |-> FALSE,
      zero |-> zero, width |-> width, prec |-> prec, type |-> type, junk |-> junk ]

\* the same flags with the alternate form ('#') asked for
WithAlt(g) == [g EXCEPT !.alt = TRUE]

\* a template that was not written from flags
NoSpec == [ set |-> FALSE, fill |-> NUL, align |-> NUL, sign |-> NUL, alt |-> FALSE,
            zero |-> FALSE, width |-> -1, prec |-> -1, type |-> NUL, junk |-> NUL ]

\* the decimal digits of n >= 0
RECURSIVE Decimal(_)
Decimal(n) ==
    LET d == << "0", "1", "2", "3", "4", "5", "6", "7", "8", "9" >>[(n % 10) + 1]
    IN  IF n < 10 THEN << d >> ELSE Decimal(n \div 10) \o << d >>

\* one character of a spec, or nothing for NUL
Opt(ch) == IF ch = NUL THEN << >> ELSE << ch >>

\* the text of the spec the grammar of parse_format has for the flags g
SpecText(g) ==
    Opt(g.fill) \o Opt(g.align) \o Opt(g.sign)
        \o (IF g.alt THEN << "#" >> ELSE << >>)
        \o (IF g.zero THEN << "0" >> ELSE << >>)
        \o (IF g.width >= 0 THEN Decimal(g.width) ELSE << >>)
        \o (IF g.prec >= 0 THEN << "." >> \o Decimal(g.prec) ELSE << >>)
        \o Opt(g.type) \o Opt(g.junk)

\* the template "{:spec}"
Placeholder(spec) == << "{", ":" >> \o spec \o << "}" >>

\* "{:.<n>f}": a fixed-point rendering with n digits behind the point
PrecisionTemplate(n) == Placeholder(<< "." >> \o Decimal(n) \o << "f" >>)

\* the bytes that may lie behind the buffer of format_float: a zero and
\* one that is not
StackBytes == {NUL, "?"}

\* the calls format("{:.<n>f}", 12.0) whose text fills the buffer of
\* format_float up to its last byte, or is longer than the buffer
ScratchCases ==
    { << PrecisionTemplate(n), << FloatOnStack(12, b) >> >> :
        n \in {507, 508, 509, 600}, b \in StackBytes }

AlignChars == {"<", ">", "^", "="}

\* specs for the layout of a rendering: every alignment with and without a
\* fill, every width with and without a leading 0, precisions below and
\* above the length of the content
LayoutSpecs ==
    { GivenSpec(fa[1], fa[2], sg, wd[1], wd[2], pr, ty, NUL) :
        fa \in {<< NUL, NUL >>} \cup ({NUL, "*"} \X AlignChars),
        sg \in {NUL, "+"},
        wd \in {<< FALSE, -1 >>} \cup (BOOLEAN \X (1..MaxWidth)),
        pr \in {-1, 0, 2, 5},
        ty \in {NUL, "x"} }

\* specs whose fill is itself a character of the grammar
ParserSpecs ==
    { GivenSpec(fl, al, sg, FALSE, wd, -1, ty, NUL) :
        fl \in {">", "+", "0", "x", "_"},
        al \in AlignChars,
        sg \in {NUL, "+"},
        wd \in {-1, 5},
        ty \in {NUL, "x"} }

\* specs with a character left over: one that no stage takes, or, behind a
\* type, one of a stage that is past
JunkSpecs ==
    { GivenSpec(NUL, al, sg, FALSE, wd, pr, NUL, jk) :
        al \in {NUL, "<"}, sg \in {NUL, "+"}, wd \in {-1, 5}, pr \in {-1, 2},
        jk \in {"_", ",", "n"} }
      \cup
    { GivenSpec(NUL, al, sg, FALSE, wd, pr, "x", jk) :
        al \in {NUL, "<"}, sg \in {NUL, "+"}, wd \in {-1, 5}, pr \in {-1, 2},
        jk \in {"_", ",", "n", "+", "#", "5", ".", "x"} }

\* the arguments those specs are applied to
LayoutArgs ==
    { IntArg(2), IntArg(-12), StrArg(<< "f", "o", "o" >>), Ooga, BoolArg(1),
      FloatArg(12) }

\* specs that only select the base of an integer
BaseSpecs ==
    { GivenSpec(NUL, NUL, NUL, FALSE, -1, -1, ty, NUL) :
        ty \in {NUL, "b", "o", "d", "x", "X"} }

\* the same specs with the alternate form
AltSpecs == { WithAlt(g) : g \in BaseSpecs }

\* the integers rendered in every base: the small ones, those of the test
\* suite, the largest int and a negative one
BaseValues ==
    (0..MaxValue) \cup {40, 68, 63, 30, 2748, 186, 3840, 2989, 2147483647, -12, -255}

\* the smallest values of the signed types: int8_t, int16_t, and, as the
\* 64 bits of a long, int32_t and int64_t
Int8Min == IntArg(-128)
Int16Min == IntArg(-32768)
Int32Min == LLArg(<< 65535, 65535, 32768, 0 >>)
Int64Min == LLArg(Min64)
MinArgs == {Int8Min, Int16Min, Int32Min, Int64Min}

\* the arguments rendered in every base: those integers, the smallest
\* values, the largest long long and the largest unsigned long long
BaseArgs ==
    { IntArg(v) : v \in BaseValues }
        \cup MinArgs
        \cup { LLArg(<< 32767, 65535, 65535, 65535 >>), ULLArg(Max64) }

\* what the caller writes with Output::write itself
WriteData == { << >>, << "x" >>, << "x", "y" >>, << "x", "y", "z" >> }

\* the Outputs of the sink specification
Outputs ==
    { BufferOutput(c) : c \in 0..MaxCap }
        \cup { StreamOutput(-1, -1) }
        \cup { StreamOutput(r, t) : r \in 0..MaxRoom, t \in {-1, 0} }

SinkTemplates ==
    { << "a", "b" >>, << "{", "}" >>, << "{", ":", "^", "}" >>, << "a", "{" >> }

-----------------------------------------------------------------------------
(* State machine *)

InitGiven(f, a, o, g) ==
    /\ fmt = f
    /\ args = a
    /\ given = g
    /\ output = o
    /\ pc = "idle"
    /\ state = "STATE_OPENER"
    /\ next = 1
    /\ start = 1
    /\ formatStart = 0
    /\ prev = -1
    /\ index = -1
    /\ before = 0
    /\ ret = 0
    /\ spin = [n |-> 0, fill |-> " "]
    /\ lit = [i \in 1..Len(f) |-> 0]
    /\ resolved = << >>
    /\ rendered = {}
    /\ escapes = {}
    /\ requested = [calls |-> 0, bytes |-> 0]
    /\ nwrites = 0

\* a template the caller wrote as it is
InitWith(f, a, o) == InitGiven(f, a, o, NoSpec)

\* format(FILE*, fmt, args...) on a stream that takes every byte
Init ==
    \/ \E f \in Templates, a \in ArgLists : InitWith(f, a, StreamOutput(-1, -1))
    \/ \E c \in TestCases \cup OverflowCases \cup FallbackCases \cup ScratchCases :
          InitWith(c[1], c[2], StreamOutput(-1, -1))
    \/ \E g \in LayoutSpecs \cup ParserSpecs \cup JunkSpecs, a \in LayoutArgs :
          InitGiven(Placeholder(SpecText(g)), << a >>, StreamOutput(-1, -1), g)
    \/ \E g \in BaseSpecs \cup AltSpecs, a \in BaseArgs :
          InitGiven(Placeholder(SpecText(g)), << a >>, StreamOutput(-1, -1), g)

\* an Output of any kind, written to by the caller and by format()
InitSink ==
    \E f \in SinkTemplates, o \in Outputs : InitWith(f, << Ooga >>, o)

term == Len(fmt) + 1

\* requested after the write() calls ws
Log(rq, ws) == [calls |-> rq.calls + Len(ws), bytes |-> rq.bytes + TotalLen(ws)]

\* lit with the bytes a..b counted once more
Count(l, a, b) == [i \in DOMAIN l |-> IF a <= i /\ i <= b THEN l[i] + 1 ELSE l[i]]

scanVars == << state, next, start, formatStart, prev, index >>
histVars == << lit, resolved, rendered, escapes >>

\* the caller calls output.write(bytes, data)
Write ==
    /\ pc \in {"idle", "done"}
    /\ nwrites < MaxWrites
    /\ \E data \in WriteData :
          /\ output' = OutputWrite(output, data)
          /\ requested' = Log(requested, << data >>)
    /\ nwrites' = nwrites + 1
    /\ UNCHANGED << fmt, args, given, pc, before, ret, spin >>
    /\ UNCHANGED scanVars
    /\ UNCHANGED histVars

\* format(): entry, up to the while loop
Start ==
    /\ pc = "idle"
    /\ pc' = "scan"
    /\ before' = Result(output)
    /\ state' = "STATE_OPENER"
    /\ next' = 1
    /\ start' = 1
    /\ formatStart' = 0
    /\ prev' = -1
    /\ index' = -1
    /\ UNCHANGED << fmt, args, given, output, ret, spin, requested, nwrites >>
    /\ UNCHANGED histVars

\* format(): one pass of the loop in STATE_OPENER
Opener ==
    /\ pc = "scan" /\ next < term /\ state = "STATE_OPENER"
    /\ LET ptr == next
           nx == next + 1
           ch == fmt[ptr]
       IN  CASE ch = "{" ->
                  /\ output' = OutputWrite(output, SubSeq(fmt, start, ptr - 1))
                  /\ requested' = Log(requested, << SubSeq(fmt, start, ptr - 1) >>)
                  /\ lit' = Count(lit, start, ptr - 1)
                  /\ IF nx < term
                     THEN IF fmt[nx] # "{"
                          THEN /\ index' = -1
                               /\ start' = ptr
                               /\ formatStart' = 0
                               /\ state' = "STATE_INDEX"
                               /\ next' = nx
                               /\ UNCHANGED escapes
                          ELSE /\ start' = nx
                               /\ next' = nx + 1
                               /\ escapes' = escapes \cup {ptr}
                               /\ UNCHANGED << index, formatStart, state >>
                     ELSE /\ next' = nx
                          /\ UNCHANGED << index, start, formatStart, state, escapes >>
             [] ch = "}" ->
                  /\ output' = OutputWrite(output, SubSeq(fmt, start, nx - 1))
                  /\ requested' = Log(requested, << SubSeq(fmt, start, nx - 1) >>)
                  /\ lit' = Count(lit, start, nx - 1)
                  /\ IF nx < term /\ fmt[nx] = "}"
                     THEN /\ next' = nx + 1
                          /\ start' = nx + 1
                          /\ escapes' = escapes \cup {ptr}
                     ELSE /\ next' = nx
                          /\ start' = nx
                          /\ UNCHANGED escapes
                  /\ UNCHANGED << index, formatStart, state >>
             [] OTHER ->
                  /\ next' = nx
                  /\ UNCHANGED << output, requested, lit, escapes, index, start,
                                  formatStart, state >>
    /\ UNCHANGED << fmt, args, given, pc, prev, before, ret, spin, resolved, rendered,
                    nwrites >>

\* AutoIndex that repeats the previous index
AutoIndexStale(idx, prv) == IF idx < 0 THEN prv ELSE idx

\* AutoIndex that starts over at every placeholder
AutoIndexRestart(idx, prv) == IF idx < 0 THEN 0 ELSE idx

\* AutoIndex that gives the first placeholder 0 and then repeats the
\* previous index
AutoIndexRepeat(idx, prv) == IF idx < 0 THEN Max(prv, 0) ELSE idx

\* format(): STATE_INDEX, the index a placeholder without digits gets
AutoIndex(idx, prv) == IF idx < 0 THEN prv + 1 ELSE idx

\* format(): one pass of the loop in STATE_INDEX
Index ==
    /\ pc = "scan" /\ next < term /\ state = "STATE_INDEX"
    /\ LET ch == fmt[next]
       IN  IF IsDigit(ch)
           THEN /\ index' = IF index < 0
                            THEN DigitVal(ch)
                            ELSE MulAdd32(index, DigitVal(ch))
                /\ next' = next + 1
                /\ UNCHANGED << prev, state, resolved >>
           ELSE /\ index' = AutoIndex(index, prev)
                /\ prev' = index'
                /\ state' = "STATE_MARKER"
                /\ next' = next
                /\ resolved' = Append(resolved, [idx |-> index', auto |-> index < 0])
    /\ UNCHANGED << fmt, args, given, output, pc, start, formatStart, before, ret, spin,
                    lit, rendered, escapes, requested, nwrites >>

\* format(): one pass of the loop in STATE_MARKER
Marker ==
    /\ pc = "scan" /\ next < term /\ state = "STATE_MARKER"
    /\ IF fmt[next] = ":"
       THEN state' = "STATE_FLAGS" /\ next' = next + 1
       ELSE state' = "STATE_CLOSER" /\ next' = next
    /\ UNCHANGED << fmt, args, given, output, pc, start, formatStart, prev, index, before,
                    ret, spin, requested, nwrites >>
    /\ UNCHANGED histVars

\* format(): one pass of the loop in STATE_FLAGS
Flags ==
    /\ pc = "scan" /\ next < term /\ state = "STATE_FLAGS"
    /\ formatStart' = IF formatStart = 0 THEN next ELSE formatStart
    /\ IF fmt[next] = "}" \/ fmt[next] = "{"
       THEN state' = "STATE_CLOSER" /\ next' = next
       ELSE state' = state /\ next' = next + 1
    /\ UNCHANGED << fmt, args, given, output, pc, start, prev, index, before, ret, spin,
                    requested, nwrites >>
    /\ UNCHANGED histVars

\* format(): STATE_CLOSER, the StringView handed to format_index
FormatView(f, fs, ptr) == IF fs # 0 THEN SubSeq(f, fs, ptr - 1) ELSE << >>

\* format(): one pass of the loop in STATE_CLOSER, format_index included
Closer ==
    /\ pc = "scan" /\ next < term /\ state = "STATE_CLOSER"
    /\ LET ptr == next
           nx == next + 1
           r == format_index(FormatView(fmt, formatStart, ptr), index, args)
       IN  IF fmt[ptr] = "}"
           THEN /\ output' = WriteAll(output, r.ws)
                /\ requested' = Log(requested, r.ws)
                /\ IF r.spin # 0
                   THEN /\ pc' = "spin"
                        /\ spin' = [n |-> r.spin, fill |-> r.fill]
                        /\ UNCHANGED << start, rendered >>
                   ELSE /\ start' = IF r.ok THEN nx ELSE start
                        /\ rendered' = IF r.ok THEN rendered \cup (start..ptr)
                                       ELSE rendered
                        /\ UNCHANGED << pc, spin >>
           ELSE UNCHANGED << output, requested, pc, spin, start, rendered >>
    /\ state' = "STATE_OPENER"
    /\ next' = next + 1
    /\ UNCHANGED << fmt, args, given, formatStart, prev, index, before, ret, lit, resolved,
                    escapes, nwrites >>

\* a renderer's padding loop `while (n--) output.write(fill)` entered with
\* n < 0: one more pass
Spin ==
    /\ pc = "spin"
    /\ spin.n # 0
    /\ spin.n >= -MaxSpin
    /\ output' = OutputWrite(output, << spin.fill >>)
    /\ requested' = Log(requested, << << spin.fill >> >>)
    /\ spin' = [spin EXCEPT !.n = @ - 1]
    /\ UNCHANGED << fmt, args, given, pc, before, ret, nwrites >>
    /\ UNCHANGED scanVars
    /\ UNCHANGED histVars

\* RemainingData that forgets the tail of the template
RemainingDataNone(f, st) == << >>

\* format(): "Print remaining data", the bytes written after the loop
RemainingData(f, st) == SubSeq(f, st, Len(f))

\* format(): the value returned
ReturnValue(after, bef) == IF after < 0 THEN after ELSE after - bef

\* format(): after the loop
Finish ==
    /\ pc = "scan" /\ ~(next < term)
    /\ IF start # term
       THEN /\ output' = OutputWrite(output, RemainingData(fmt, start))
            /\ requested' = Log(requested, << RemainingData(fmt, start) >>)
            /\ lit' = Count(lit, start, term - 1)
       ELSE UNCHANGED << output, requested, lit >>
    /\ ret' = ReturnValue(Result(output'), before)
    /\ pc' = "done"
    /\ UNCHANGED << fmt, args, given, before, spin, resolved, rendered, escapes, nwrites >>
    /\ UNCHANGED scanVars

Next == Start \/ Opener \/ Index \/ Marker \/ Flags \/ Closer \/ Spin \/ Finish

Spec == Init /\ [][Next]_vars

NextSink == Write \/ Start \/ Opener \/ Index \/ Marker \/ Flags \/ Closer \/ Spin \/ Finish

SpecSink == InitSink /\ [][NextSink]_vars

-----------------------------------------------------------------------------
(* Properties *)

\* template bytes the scanner skipped as the dropped half of a doubled brace
Dropped == { IF fmt[p] = "{" THEN p ELSE p + 1 : p \in escapes }

\* the size the buffer Output was constructed with
Capacity == Len(output.mem) - 1

\* C1: when format() has returned, every template byte outside a rendered
\* placeholder and outside a doubled-brace escape (so every byte of a
\* placeholder whose dispatch failed) has been written exactly once, neither
\* dropped nor duplicated.
C1_PassThrough ==
    pc = "done" =>
        \A i \in 1..Len(fmt) :
            i \notin (rendered \cup Dropped) => lit[i] = 1

\* C2: a placeholder nested in a spec is replaced by the rendering of its
\* argument before the spec is parsed: format("{1:.{0}}", 3, "ooga") is "oog".
C2_NestedSpec ==
    (pc = "done" /\ fmt = NestedTemplate /\ args = << IntArg(3), Ooga >>)
        => Emitted(output) = << "o", "o", "g" >>

\* C3: a placeholder without an index resolves to the index of the previous
\* placeholder (explicit or automatic) plus one, and to 0 if it is the first.
C3_AutoIndex ==
    \A i \in 1..Len(resolved) :
        resolved[i].auto =>
            resolved[i].idx = IF i = 1 THEN 0 ELSE resolved[i - 1].idx + 1

C3_Witness ==
    /\ pc = "done"
    /\ \E i \in 2..Len(resolved) :
          /\ resolved[i].auto /\ ~resolved[i - 1].auto
          /\ resolved[i - 1].idx = 1 /\ resolved[i].idx = 2

\* j and i are placeholders without an index, with none between them
ConsecutiveAuto(j, i) ==
    /\ j < i
    /\ resolved[j].auto /\ resolved[i].auto
    /\ \A k \in (j + 1)..(i - 1) : ~resolved[k].auto

\* C4 (as claimed): the index of a placeholder without an index is that of the
\* previous placeholder without an index plus one, whatever explicitly
\* indexed placeholders lie between them.
C4_ExplicitIgnored ==
    \A i \in 1..Len(resolved), j \in 1..Len(resolved) :
        ConsecutiveAuto(j, i) => resolved[i].idx = resolved[j].idx + 1

\* C4 (amended): the index of a placeholder without an index is that of the
\* previous placeholder without an index plus one exactly when the
\* placeholder right before it resolved to that same index; an explicit
\* index between them that differs moves the auto-index.
C4_ExplicitMovesAuto ==
    \A i \in 1..Len(resolved), j \in 1..Len(resolved) :
        ConsecutiveAuto(j, i) =>
            ((resolved[i].idx = resolved[j].idx + 1)
                <=> (resolved[i - 1].idx = resolved[j].idx))

C4_Witness ==
    /\ pc = "done"
    /\ \E i \in 1..Len(resolved), j \in 1..Len(resolved) :
          /\ ConsecutiveAuto(j, i)
          /\ j < i - 1
          /\ resolved[i].idx # resolved[j].idx + 1

\* C5: when format() has returned, each doubled brace the scanner took
\* outside a placeholder has put exactly one brace into the output.
C5_DoubledBrace ==
    pc = "done" => \A p \in escapes : lit[p] + lit[p + 1] = 1

NoBraces(f) == \A i \in 1..Len(f) : f[i] # "{" /\ f[i] # "}"

\* C6: for a template without "{" and "}", and any arguments, format() writes
\* exactly the template to the sink, and result() and the value returned are
\* its length.
C6_LiteralOnly ==
    (pc = "done" /\ NoBraces(fmt)) =>
        /\ Emitted(output) = fmt
        /\ Result(output) = Len(fmt)
        /\ ret = Len(fmt)

C6_Witness ==
    /\ pc = "done" /\ NoBraces(fmt)
    /\ Len(fmt) >= 2 /\ args # << >>
    /\ Emitted(output) = fmt

\* C7: every padding loop of a renderer runs a finite, non-negative number
\* of times: no renderer enters one with a negative counter.
C7_PaddingLoopsEnd == pc # "spin" /\ spin.n >= 0

\* C8: once the length of the sink is -1, no write passes a byte to the
\* stream or into the buffer, the length stays -1, and a format() call that
\* returns then returns -1.
C8_StickyError ==
    [][ /\ output.m_length = -1 => output' = output
        /\ (pc = "scan" /\ pc' = "done" /\ output'.m_length = -1) => ret' = -1
      ]_vars

C8_Witness ==
    /\ pc = "done"
    /\ before = -1 /\ ret = -1
    /\ fmt = << "a", "b" >>
    /\ output.m_length = -1
    /\ output.file = << "x" >>
    /\ output.retry = -1

\* C9: for a buffer sink of any capacity, 0 included, result() is the sum of
\* the lengths requested by all writes, whatever fitted.
C9_WouldHaveWritten ==
    ~output.m_stream => Result(output) = requested.bytes

C9_Witness ==
    /\ ~output.m_stream
    /\ Capacity = 0
    /\ requested.calls >= 2
    /\ requested.bytes >= 3
    /\ Result(output) = requested.bytes

C11_BufferFilled ==
    (~output.m_stream /\ Capacity >= 1 /\ requested.bytes >= Capacity) =>
        /\ output.m_off = Capacity
        /\ \A i \in 1..Capacity : output.mem[i] \notin {NUL, "?"}

\* C12: when the bytes requested of a buffer sink are fewer than its
\* capacity, every buffer byte from the requested length on keeps the value
\* it had, and (no template or data holding a 0) no byte of the buffer is 0.
C12_TailUntouched ==
    (~output.m_stream /\ requested.bytes < Capacity) =>
        /\ \A i \in (requested.bytes + 1)..Capacity : output.mem[i] = "?"
        /\ \A i \in 1..Capacity : output.mem[i] # NUL

C14_StreamLength ==
    [][ /\ (output.m_stream /\ output.m_length >= 0
                /\ requested'.calls > requested.calls) =>
              output'.m_length =
                  IF Len(output'.file) - Len(output.file)
                        = requested'.bytes - requested.bytes
                  THEN output.m_length + (requested'.bytes - requested.bytes)
                  ELSE -1
        /\ (output.m_stream /\ nwrites = 0 /\ pc = "scan" /\ pc' = "done") =>
              /\ ret' = IF Len(output'.file) = requested'.bytes
                        THEN Len(output'.file)
                        ELSE -1
              /\ Result(output') = ret'
      ]_vars

C14_Witness ==
    /\ output.m_stream
    /\ nwrites = 0
    /\ pc = "done"
    /\ ret = -1
    /\ Len(output.file) = 1
    /\ requested.bytes = 2

\* C15: format(output, fmt, args...) returns the value output.result() has
\* right after the call, whatever was written to the Output before.
C15_ReturnsResult ==
    [][ (pc = "scan" /\ pc' = "done") => ret' = Result(output') ]_vars

\* C16: an integer in alternate form with sign-aware zero padding is written
\* as sign, base prefix, fill, digits: "{:#08x}" of 1 is "0x000001" and
\* "{:-#08x}" of -1 is "-0x00001".
C16_PrefixBeforeFill ==
    /\ (pc = "done" /\ fmt = AltZeroTemplate /\ args = << IntArg(1) >>) =>
          Emitted(output) = << "0", "x", "0", "0", "0", "0", "0", "1" >>
    /\ (pc = "done" /\ fmt = AltZeroSignTemplate /\ args = << IntArg(-1) >>) =>
          Emitted(output) = << "-", "0", "x", "0", "0", "0", "0", "1" >>

\* the position of the sign character in a rendering
SignPos(out) == CHOOSE p \in 1..Len(out) : out[p] \in {"+", "-"}

C18_CharType ==
    (pc = "done" /\ fmt = CharTypeTemplate /\ args = << IntArg(65) >>) =>
        Emitted(output) = << "A" >>

\* C19: a bool argument is written as "true" or "false" when the spec has no
\* type flag, and as the integer 1 or 0 when it has the type flag 'd' or 'x'.
C19_BoolType ==
    \A b \in {0, 1} :
        (pc = "done" /\ args = << BoolArg(b) >>) =>
            /\ fmt = PlainTemplate =>
                  Emitted(output) = IF b = 1 THEN << "t", "r", "u", "e" >>
                                    ELSE << "f", "a", "l", "s", "e" >>
            /\ fmt \in {DecTemplate, HexTemplate} =>
                  Emitted(output) = IF b = 1 THEN << "1" >> ELSE << "0" >>

\* C20: a char argument with no type flag is written as that character, not
\* as its code, left-aligned in a given width: "{}" of 'x' is "x", "{:3}"
\* is "x  " and "{:>3}" is "  x".
C20_CharArg ==
    (pc = "done" /\ args = << CharArg(120) >>) =>
        /\ fmt = PlainTemplate => Emitted(output) = << "x" >>
        /\ fmt = WidthTemplate => Emitted(output) = << "x", " ", " " >>
        /\ fmt = RightTemplate => Emitted(output) = << " ", " ", "x" >>

\* the characters a generated spec can pad with
PadChars == {" ", "*", "0", ">", "+", "x", "_"}

\* out is content with only the character pad before and behind it
Framed(out, content, pad) ==
    \E i \in 0..(Len(out) - Len(content)) :
        \A j \in 1..Len(out) :
            out[j] = IF j > i /\ j <= i + Len(content) THEN content[j - i] ELSE pad

\* a spec written from flags, with nothing left over, has been rendered
RenderedGiven == pc = "done" /\ given.set /\ given.junk = NUL

\* C21: for a string argument of length L the content written is its first
\* min(precision, L) characters when the spec has a precision and the whole
\* string otherwise, whatever type flag and sign flag the spec has; around
\* it there is nothing but padding.
C21_StringContent ==
    (RenderedGiven /\ args[1].kind = "str") =>
        LET str == args[1].str
            content == IF given.prec >= 0
                       THEN SubSeq(str, 1, Min(given.prec, Len(str)))
                       ELSE str
        IN  \E pad \in PadChars : Framed(Emitted(output), content, pad)

C21_Witness ==
    /\ RenderedGiven
    /\ args = << Ooga >>
    /\ given.prec = 2 /\ given.type = "x" /\ given.sign = "+" /\ given.width = 5
    /\ given.align = NUL /\ ~given.zero
    /\ Emitted(output) = << "o", "o", " ", " ", " " >>

\* the number of characters pad that out starts with, and that it ends with
LeadCount(out, pad) ==
    CHOOSE k \in 0..Len(out) :
        /\ \A j \in 1..k : out[j] = pad
        /\ k = Len(out) \/ out[k + 1] # pad

TailCount(out, pad) ==
    CHOOSE k \in 0..Len(out) :
        /\ \A j \in (Len(out) - k + 1)..Len(out) : out[j] = pad
        /\ k = Len(out) \/ out[Len(out) - k] # pad

\* the fill a spec written from flags asks for
GivenFill == IF given.fill # NUL THEN given.fill ELSE " "

\* the fill is a character that no content holds, so that the padding of a
\* rendering can be counted
PlainFill == given.fill \in {NUL, "*"} /\ ~given.zero

\* C22: when the spec has a width larger than the content and no alignment
\* (and no leading 0, which stands for one), all the padding precedes
\* integer and float content and follows string content.
C22_DefaultAlign ==
    (RenderedGiven /\ given.align = NUL /\ ~given.zero /\ given.width >= 0) =>
        LET out == Emitted(output)
            n == Cardinality({j \in 1..Len(out) : out[j] # " "})
        IN  /\ Len(out) = Max(given.width, n)
            /\ args[1].kind \in {"int", "float"} =>
                  \A j \in 1..(Len(out) - n) : out[j] = " "
            /\ args[1].kind = "str" =>
                  \A j \in (n + 1)..Len(out) : out[j] = " "

C22_Witness ==
    /\ RenderedGiven
    /\ given.align = NUL /\ ~given.zero /\ given.width = 5 /\ given.prec = -1
    /\ args = << StrArg(<< "f", "o", "o" >>) >>
    /\ Emitted(output) = << "f", "o", "o", " ", " " >>

C24_LayoutWidth ==
    (given.set /\ given.junk = NUL /\ PlainFill) =>
        /\ pc # "spin" /\ spin.n >= 0
        /\ pc = "done" =>
              LET out == Emitted(output)
              IN  /\ Len(out) >= given.width
                  /\ LeadCount(out, GivenFill) + TailCount(out, GivenFill) > 0
                        => Len(out) = given.width

\* C25: under alignment '^' the leading and the trailing padding differ by at
\* most one character: "{:^6}" of true is " true ".
C25_CenterEven ==
    /\ (RenderedGiven /\ given.align = "^" /\ PlainFill) =>
          LET out == Emitted(output)
              lead == LeadCount(out, GivenFill)
              tail == TailCount(out, GivenFill)
          IN  lead < Len(out) => (lead - tail) \in {-1, 0, 1}
    /\ (pc = "done" /\ fmt = CenterBoolTemplate /\ args = << BoolArg(1) >>) =>
          Emitted(output) = << " ", "t", "r", "u", "e", " " >>

\* C26: a width with a leading 0 sets fill '0' and alignment '=' only when
\* the spec has no alignment of its own: "{:<#08x}" of 1 is "0x100000", and
\* "{:<0w}" of 2 starts with the digit.
C26_ExplicitAlignKept ==
    /\ (pc = "done" /\ fmt = LeftAltZeroTemplate /\ args = << IntArg(1) >>) =>
          Emitted(output) = << "0", "x", "1", "0", "0", "0", "0", "0" >>
    /\ (RenderedGiven /\ given.zero /\ given.align = "<" /\ given.sign = NUL
            /\ given.width >= 2 /\ args = << IntArg(2) >>) =>
          /\ Len(Emitted(output)) = given.width
          /\ Emitted(output)[1] = "2"
    /\ (RenderedGiven /\ given.zero /\ given.align = NUL /\ given.sign = NUL
            /\ given.width >= 2 /\ args = << IntArg(2) >>) =>
          Emitted(output) = Zeros(given.width - 1) \o << "2" >>

\* C27: the align stage of the parser: a spec that starts with a fill
\* character and an alignment pads with that character (whatever it is) in
\* that alignment, one that starts with an alignment alone pads with
\* blanks, and one that starts with neither has its first character read as
\* the sign.  Seen on the integer 2 in a width of 5.
C27_FillAlign ==
    (RenderedGiven /\ ~given.zero /\ given.width = 5 /\ given.prec = -1
        /\ args = << IntArg(2) >>) =>
        LET out == Emitted(output)
            sign == Opt(given.sign)
            pads == [i \in 1..(4 - Len(sign)) |-> GivenFill]
        IN  CASE given.align = "<" -> out = sign \o << "2" >> \o pads
              [] given.align = ">" -> out = pads \o sign \o << "2" >>
              [] given.align = "=" -> out = sign \o pads \o << "2" >>
              [] given.align = "^" ->
                    Len(out) = 5 /\ Framed(out, sign \o << "2" >>, GivenFill)
              [] OTHER -> given.fill = NUL /\ out = pads \o sign \o << "2" >>

C27_Witness ==
    /\ RenderedGiven
    /\ given.fill = ">" /\ given.align = ">" /\ given.sign = "+" /\ given.width = 5
    /\ args = << IntArg(2) >>
    /\ Emitted(output) = << ">", ">", ">", "+", "2" >>

\* C28: a spec with a character left over after the stages align, sign,
\* alternate, width, precision and type fails to parse and its placeholder
\* is written unchanged; a spec of stages in order, each present or not,
\* with nothing left over parses and the placeholder is rendered.
C28_Leftover ==
    given.set =>
        /\ pc = "spin" => given.junk = NUL
        /\ pc = "done" =>
              IF given.junk # NUL
              THEN /\ Emitted(output) = fmt
                   /\ rendered = {}
                   /\ ret = Len(fmt)
              ELSE /\ rendered = 1..Len(fmt)
                   /\ \A i \in 1..Len(fmt) : lit[i] = 0

C28_Witness ==
    /\ pc = "done"
    /\ given.set /\ given.junk = "n" /\ given.type = NUL /\ given.width = 5
    /\ args = << IntArg(2) >>
    /\ Emitted(output) = fmt

\* C29: a '.' that no digit follows makes the spec invalid: "{:.}" of 1 is
\* written as the text "{:.}".
C29_BareDot ==
    (pc = "done" /\ fmt = DotTemplate /\ args = << IntArg(1) >>) =>
        Emitted(output) = fmt

\* the value of a digit character, in either case
DigitValue(ch) ==
    CASE IsDigit(ch) -> DigitVal(ch)
      [] ch \in {"a", "A"} -> 10 [] ch \in {"b", "B"} -> 11
      [] ch \in {"c", "C"} -> 12 [] ch \in {"d", "D"} -> 13
      [] ch \in {"e", "E"} -> 14 [] ch \in {"f", "F"} -> 15
      [] OTHER -> 99

\* the number a digit string stands for in a base
RECURSIVE ReadBack(_, _)
ReadBack(ds, base) ==
    IF ds = << >> THEN 0
    ELSE (ReadBack(SubSeq(ds, 1, Len(ds) - 1), base) * base) + DigitValue(ds[Len(ds)])

\* C30: the digits format_int writes for a magnitude v in the base of the
\* type flag (b: 2, o: 8, x and X: 16, else 10) have no leading zero unless
\* v = 0 (then they are "0"), are lowercase except for 'X', and read back
\* in that base give v.
C30_BaseConversion ==
    (RenderedGiven /\ args[1].kind = "int" /\ SpecText(given) = Opt(given.type)) =>
        LET v == args[1].val
            mag == IF v < 0 THEN -v ELSE v
            out == Emitted(output)
            ds == IF v < 0 THEN Tail(out) ELSE out
            base == CASE given.type = "b" -> 2
                      [] given.type = "o" -> 8
                      [] given.type \in {"x", "X"} -> 16
                      [] OTHER -> 10
            letters == IF given.type = "X"
                       THEN {"A", "B", "C", "D", "E", "F"}
                       ELSE {"a", "b", "c", "d", "e", "f"}
        IN  /\ v < 0 => out[1] = "-"
            /\ Len(ds) >= 1
            /\ ds[1] = "0" => (Len(ds) = 1 /\ mag = 0)
            /\ \A j \in 1..Len(ds) :
                  /\ IsDigit(ds[j]) \/ ds[j] \in letters
                  /\ DigitValue(ds[j]) < base
            /\ ReadBack(ds, base) = mag

C30_Witness ==
    /\ RenderedGiven
    /\ given.type = "x"
    /\ args = << IntArg(2748) >>
    /\ Emitted(output) = << "a", "b", "c" >>

\* a spec that has nothing but '#', or not, and a type, or not
BaseOnly == SpecText(given) = (IF given.alt THEN << "#" >> ELSE << >>) \o Opt(given.type)

\* C31: with '#' the digits of an integer follow "0b" under type b, "0o"
\* under o, "0x" under x and "0X" under X, and nothing under d or no type;
\* without '#' nothing precedes the digits under any type.
C31_AlternatePrefix ==
    (RenderedGiven /\ args[1].kind = "int" /\ BaseOnly) =>
        LET v == args[1].val
            mag == IF v < 0 THEN -v ELSE v
            out == Emitted(output)
            body == IF v < 0 THEN Tail(out) ELSE out
            base == CASE given.type = "b" -> 2
                      [] given.type = "o" -> 8
                      [] given.type \in {"x", "X"} -> 16
                      [] OTHER -> 10
            prefix == IF given.alt /\ given.type \in {"b", "o", "x", "X"}
                      THEN << "0", given.type >>
                      ELSE << >>
            ds == SubSeq(body, Len(prefix) + 1, Len(body))
        IN  /\ Len(body) > Len(prefix)
            /\ SubSeq(body, 1, Len(prefix)) = prefix
            /\ ds[1] = "0" => Len(ds) = 1
            /\ \A j \in 1..Len(ds) : DigitValue(ds[j]) < base
            /\ ReadBack(ds, base) = mag

C31_Witness ==
    /\ RenderedGiven
    /\ given.alt
    /\ given.type = "X"
    /\ args = << IntArg(2748) >>
    /\ Emitted(output) = << "0", "X", "A", "B", "C" >>

\* the digits of 2^e in the base 2^k
PowerOfTwo(e, k) == << << "1", "2", "4", "8" >>[(e % k) + 1] >> \o Zeros(e \div k)

\* the digits of 2^(w-1), the magnitude of the smallest value of w bits
MinMagnitude(w, type) ==
    CASE type = "b" -> PowerOfTwo(w - 1, 1)
      [] type = "o" -> PowerOfTwo(w - 1, 3)
      [] type \in {"x", "X"} -> PowerOfTwo(w - 1, 4)
      [] w = 8 -> << "1", "2", "8" >>
      [] w = 16 -> << "3", "2", "7", "6", "8" >>
      [] w = 32 -> << "2", "1", "4", "7", "4", "8", "3", "6", "4", "8" >>
      [] OTHER -> << "9", "2", "2", "3", "3", "7", "2", "0", "3", "6",
                     "8", "5", "4", "7", "7", "5", "8", "0", "8" >>

\* C32: the smallest value of a signed type of w bits (8, 16, 32, 64) is
\* rendered as '-' and the digits of 2^(w-1), behind the prefix of the
\* alternate form where the spec asks for one: the renderer gets
\* isNegative = TRUE and the magnitude 2^(w-1), for the smallest 64-bit
\* value as for the others.
C32_MinimumMagnitude ==
    (RenderedGiven /\ BaseOnly /\ args[1] \in MinArgs) =>
        LET w == CASE args[1] = Int8Min -> 8
                   [] args[1] = Int16Min -> 16
                   [] args[1] = Int32Min -> 32
                   [] OTHER -> 64
            prefix == IF given.alt /\ given.type \in {"b", "o", "x", "X"}
                      THEN << "0", given.type >>
                      ELSE << >>
        IN  Emitted(output) = << "-" >> \o prefix \o MinMagnitude(w, given.type)

C32_Witness ==
    /\ RenderedGiven
    /\ args = << Int64Min >>
    /\ given.type = "x"
    /\ ~given.alt
    /\ Emitted(output) = << "-", "8" >> \o Zeros(15)

\* the template's last character is a '{' that is not the second of a
\* doubled brace
LoneOpenerLast ==
    /\ Len(fmt) >= 1
    /\ fmt[Len(fmt)] = "{"
    /\ (Len(fmt) - 1) \notin escapes

\* where the placeholder starts that the end of the template leaves open
\* (0: the template ends outside a placeholder)
OpenAt ==
    IF state # "STATE_OPENER" THEN start
    ELSE IF LoneOpenerLast THEN Len(fmt)
    ELSE 0

\* C33: when the template ends inside a placeholder that is not closed
\* (such as "{:", or a '{' that is its last character), format() has
\* written the text of that placeholder exactly once, and no byte of the
\* template twice.
C33_UnterminatedOnce ==
    (pc = "done" /\ OpenAt > 0) =>
        /\ \A i \in OpenAt..Len(fmt) : lit[i] = 1
        /\ \A i \in 1..Len(fmt) : lit[i] <= 1

\* the scanner is at the '}' of a placeholder whose index has an argument:
\* the next step parses the spec
AtDispatch ==
    /\ pc = "scan"
    /\ next < term
    /\ state = "STATE_CLOSER"
    /\ fmt[next] = "}"
    /\ index >= 0 /\ index < Len(args)

\* the flags parse_format leaves for the spec at the scanner's position
ParsedFlags == parse_format(FormatView(fmt, formatStart, next)).flags

\* C34: the flags parse_format leaves for any spec, with digit runs of
\* width or precision past the largest int32_t too (the arithmetic wraps
\* modulo 2^32), have a width that is -1 (unset) or not negative and a
\* precision that is -1 (unset) or not negative.
C34_FlagsNotNegative ==
    AtDispatch => (ParsedFlags.width >= -1 /\ ParsedFlags.precision >= -1)

\* the step at the '}' of a placeholder that was not rendered: its spec did
\* not parse, or its index has no argument (start stays on its '{')
FailedDispatch ==
    /\ pc = "scan" /\ next < term /\ state = "STATE_CLOSER" /\ fmt[next] = "}"
    /\ pc' = "scan"
    /\ start' = start

\* C35: a placeholder whose rendering fails (the spec does not parse, or
\* the index is past the last argument) leaves the sink as it was: the
\* failed attempt writes nothing and calls write() not at all.
C35_FailedDispatchWritesNothing ==
    [][FailedDispatch => (output' = output /\ requested' = requested)]_vars

C35_Witness ==
    /\ pc = "done"
    /\ given.set
    /\ given.junk = ","
    /\ given.width = 5
    /\ args = << IntArg(-12) >>
    /\ rendered = {}
    /\ Emitted(output) = fmt

\* C36: a placeholder that reaches the index stage advances the automatic
\* index whether it is rendered or not: as long as no placeholder of the
\* call has been rendered, the i-th placeholder without an index resolves
\* to i - 1, and "{:_}{}" and "{foo.bar}{}" of 0, 1, 2 write the text of
\* the first placeholder and then "1".
C36_AdvanceWithoutRender ==
    /\ (rendered = {} /\ \A i \in 1..Len(resolved) : resolved[i].auto) =>
            \A i \in 1..Len(resolved) : resolved[i].idx = i - 1
    /\ (pc = "done" /\ << fmt, args >> \in FallbackCases) =>
            Emitted(output) = SubSeq(fmt, 1, Len(fmt) - 2) \o << "1" >>

C36_Witness ==
    /\ pc = "done"
    /\ fmt = JunkThenAutoTemplate
    /\ args = << IntArg(0), IntArg(1), IntArg(2) >>
    /\ resolved = << [idx |-> 0, auto |-> TRUE], [idx |-> 1, auto |-> TRUE] >>
    /\ rendered = {5, 6}
    /\ Emitted(output) = << "{", ":", "_", "}", "1" >>

\* format() has rendered its one floating-point argument with two calls of
\* write(): the empty run in front of the '{', and the digits, with no sign
\* and no padding
DigitsOnly ==
    /\ pc = "done"
    /\ Len(args) = 1
    /\ args[1].kind = "float"
    /\ rendered = 1..Len(fmt)
    /\ requested.calls = 2

\* C37: the bytes format_float hands to the sink from its buffer of 512
\* bytes are at most the 511 that snprintf can have stored in it, for every
\* spec and every precision.
C37_ScratchBounds ==
    DigitsOnly => requested.bytes <= ScratchSize - 1

\* the one argument is an integer that is negative
NegativeArg ==
    CASE args[1].kind = "int" -> args[1].val < 0
      [] args[1].kind = "ll" -> IsNeg64(args[1].val)
      [] OTHER -> FALSE

\* C38: the characters format_int stores in its buffer, the digits and the
\* prefix of the alternate form, are at least 1 and at most 66 for every
\* magnitude up to 2^64 - 1, every base (2, 8, 10, 16) and with or without
\* '#': the pointer that moves backwards from the end of the buffer stays
\* inside it.
C38_DigitBuffer ==
    (RenderedGiven /\ BaseOnly /\ args[1].kind \in {"int", "ll", "ull"}) =>
        LET stored == Len(Emitted(output)) - (IF NegativeArg THEN 1 ELSE 0)
        IN  stored >= 1 /\ stored <= DigitBufferSize

C38_Witness ==
    /\ RenderedGiven
    /\ given.alt
    /\ given.type = "b"
    /\ args = << ULLArg(Max64) >>
    /\ Emitted(output) = << "0", "b" >> \o [i \in 1..64 |-> "1"]
    /\ Len(Emitted(output)) = DigitBufferSize

====
